---- MODULE Spec2Model ----
(***************************************************************************)
(* Model of scripts/boost_install.py: a linear pipeline                    *)
(*   metainfo -> download -> extract -> get_prefix -> bootstrap -> b2      *)
(* run by process(), called from main() under the top-level                *)
(* "except Exception" handler.                                             *)
(*                                                                         *)
(* Strings are sequences of one-character strings, so that str.replace,    *)
(* str.split, os.path.join and os.path.normpath are computed character by  *)
(* character as the Python library computes them.                          *)
(***************************************************************************)
EXTENDS Integers, Sequences, FiniteSets, TLC

VARIABLES
    os_name,            \* os.name: "nt" or "posix"
    args_version,       \* args.version (-v)
    args_path,          \* args.path (-p), None when the option is absent
    gettempdir,         \* what tempfile.gettempdir() returns on this machine
    pc,                 \* position of the run
    calls,              \* stages of process() started so far, in order
    version,            \* process(): version
    temp_dir,           \* process(): temp_dir
    url,                \* process(): url
    file_name,          \* process(): file_name
    extract_directory,  \* process(): extract_directory
    prefix_arg,         \* process(): prefix_arg
    running,            \* the external process subprocess.run is waiting for
    launched,           \* external processes launched so far (records)
    returncodes,        \* exit statuses of the finished external processes
    exc,                \* the exception in flight / caught, "None" if none
    raised_in,          \* the stage that raised it
    stdout,             \* tags of the messages printed so far
    exit_code           \* the interpreter's exit status, -1 while running

vars == <<os_name, args_version, args_path, gettempdir, pc, calls, version,
          temp_dir, url, file_name, extract_directory, prefix_arg, running,
          launched, returncodes, exc, raised_in, stdout, exit_code>>

----------------------------------------------------------------------------
(* Bounds of the input sets.                                               *)

\* longest explicit -p path explored by InitPaths
MaxPathLen == 4
\* most digits in either component of the version explored by InitVersions
MaxDigits == 2

----------------------------------------------------------------------------
(* String literals of the script.                                          *)

\* Python's None for a string-valued variable
None == <<"<None>">>

URL_BASE == <<"h", "t", "t", "p", "s", ":", "/", "/", "b", "o", "o", "s", "t", "o", "r", "g", ".", "j", "f", "r", "o", "g", ".", "i", "o", "/", "a", "r", "t", "i", "f", "a", "c", "t", "o", "r", "y", "/", "m", "a", "i", "n", "/", "r", "e", "l", "e", "a", "s", "e", "/">>
SOURCE_SEG == <<"/", "s", "o", "u", "r", "c", "e", "/">>
BOOST_ == <<"b", "o", "o", "s", "t", "_">>
TAR_GZ == <<".", "t", "a", "r", ".", "g", "z">>
DOT_ZERO == <<".", "0">>
NT_DEFAULT == <<"C", ":", "\\", "b", "o", "o", "s", "t", "\\", "b", "o", "o", "s", "t", "_">>
POSIX_DEFAULT == <<"/", "u", "s", "r", "/", "l", "o", "c", "a", "l", "/", "b", "o", "o", "s", "t", "_">>
PREFIX_EQ == <<"-", "-", "p", "r", "e", "f", "i", "x", "=">>
BOOTSTRAP_BAT == <<"b", "o", "o", "t", "s", "t", "r", "a", "p", ".", "b", "a", "t">>
BOOTSTRAP_SH == <<".", "/", "b", "o", "o", "t", "s", "t", "r", "a", "p", ".", "s", "h">>
B2_EXE == <<"b", "2", ".", "e", "x", "e">>
SUDO == <<"s", "u", "d", "o">>
B2_SH == <<".", "/", "b", "2">>
INSTALL == <<"i", "n", "s", "t", "a", "l", "l">>
J8 == <<"-", "j", " ", "8">>
BIN_SH == <<"/", "b", "i", "n", "/", "s", "h">>
DASH_C == <<"-", "c">>
CMD_EXE == <<"c", "m", "d", ".", "e", "x", "e">>
SLASH_C == <<"/", "c">>

----------------------------------------------------------------------------
(* str methods.                                                            *)

\* s.replace(old, new) for one-character old and new
Replace(s, old, new) == [i \in 1..Len(s) |-> IF s[i] = old THEN new ELSE s[i]]

\* s.find(c, from) with 1-based positions; 0 when c does not occur
Find(s, c, from) ==
    LET hits == {i \in from..Len(s) : s[i] = c}
    IN  IF hits = {} THEN 0 ELSE CHOOSE i \in hits : \A j \in hits : i <= j

\* s.split(c): the components between the occurrences of c
RECURSIVE Split(_, _)
Split(s, c) ==
    LET i == Find(s, c, 1)
    IN  IF i = 0 THEN <<s>>
        ELSE <<SubSeq(s, 1, i - 1)>> \o Split(SubSeq(s, i + 1, Len(s)), c)

\* sep.join(comps)
RECURSIVE StrJoin(_, _)
StrJoin(comps, sep) ==
    IF comps = <<>> THEN <<>>
    ELSE IF Len(comps) = 1 THEN comps[1]
    ELSE comps[1] \o sep \o StrJoin(Tail(comps), sep)

\* s.startswith(p)
StartsWith(s, p) == Len(s) >= Len(p) /\ SubSeq(s, 1, Len(p)) = p

\* s.lstrip(c)
RECURSIVE LStrip(_, _)
LStrip(s, c) == IF s # <<>> /\ s[1] = c THEN LStrip(Tail(s), c) ELSE s

\* s.lower() on the letters the model's drive names use
Lower(s) ==
    [i \in 1..Len(s) |->
        CASE s[i] = "C" -> "c"
          [] s[i] = "T" -> "t"
          [] s[i] = "U" -> "u"
          [] OTHER -> s[i]]

----------------------------------------------------------------------------
(* posixpath.                                                              *)

\* posixpath.join(a, b)
posix_join(a, b) ==
    IF StartsWith(b, <<"/">>) THEN b
    ELSE IF a = <<>> \/ a[Len(a)] = "/" THEN a \o b
    ELSE a \o <<"/">> \o b

\* the loop of posixpath.normpath over the components
RECURSIVE posix_comps(_, _, _)
posix_comps(comps, new_comps, initial_slashes) ==
    IF comps = <<>> THEN new_comps
    ELSE LET comp == comps[1]
             n == Len(new_comps)
         IN  IF comp = <<>> \/ comp = <<".">>
             THEN posix_comps(Tail(comps), new_comps, initial_slashes)
             ELSE IF comp # <<".", ".">>
                     \/ (initial_slashes = 0 /\ n = 0)
                     \/ (n > 0 /\ new_comps[n] = <<".", ".">>)
             THEN posix_comps(Tail(comps), Append(new_comps, comp), initial_slashes)
             ELSE IF n > 0
             THEN posix_comps(Tail(comps), SubSeq(new_comps, 1, n - 1), initial_slashes)
             ELSE posix_comps(Tail(comps), new_comps, initial_slashes)

\* posixpath.normpath(path)
posix_normpath(path) ==
    IF path = <<>> THEN <<".">>
    ELSE LET initial_slashes ==
                 IF ~StartsWith(path, <<"/">>) THEN 0
                 ELSE IF StartsWith(path, <<"/", "/">>)
                         /\ ~StartsWith(path, <<"/", "/", "/">>) THEN 2
                 ELSE 1
             comps == posix_comps(Split(path, "/"), <<>>, initial_slashes)
             joined == StrJoin(comps, <<"/">>)
             out == [i \in 1..initial_slashes |-> "/"] \o joined
         IN  IF out = <<>> THEN <<".">> ELSE out

----------------------------------------------------------------------------
(* ntpath.                                                                 *)

IsNtSep(c) == c = "\\" \/ c = "/"

\* ntpath.splitdrive(p): <<drive, rest>>
nt_splitdrive(p) ==
    IF Len(p) < 2 THEN << <<>>, p >>
    ELSE LET normp == Replace(p, "/", "\\")
         IN  IF normp[1] = "\\" /\ normp[2] = "\\"
                /\ ~(Len(normp) >= 3 /\ normp[3] = "\\")
             THEN \* a UNC path: \\machine\mountpoint\directory...
                  LET index == Find(normp, "\\", 3)
                  IN  IF index = 0 THEN << <<>>, p >>
                      ELSE LET index2 == Find(normp, "\\", index + 1)
                           IN  IF index2 = index + 1 THEN << <<>>, p >>
                               ELSE IF index2 = 0 THEN << p, <<>> >>
                               ELSE << SubSeq(p, 1, index2 - 1),
                                       SubSeq(p, index2, Len(p)) >>
             ELSE IF normp[2] = ":"
             THEN << SubSeq(p, 1, 2), SubSeq(p, 3, Len(p)) >>
             ELSE << <<>>, p >>

\* ntpath.join(path, p)
nt_join(path, p) ==
    LET r == nt_splitdrive(path)
        q == nt_splitdrive(p)
        p_drive == q[1]
        p_path == q[2]
        absolute == p_path # <<>> /\ IsNtSep(p_path[1])
        other_drive == ~absolute /\ p_drive # <<>> /\ p_drive # r[1]
                       /\ Lower(p_drive) # Lower(r[1])
        result_drive ==
            IF absolute THEN (IF p_drive # <<>> \/ r[1] = <<>> THEN p_drive ELSE r[1])
            ELSE IF p_drive # <<>> /\ p_drive # r[1] THEN p_drive
            ELSE r[1]
        result_path ==
            IF absolute \/ other_drive THEN p_path
            ELSE (IF r[2] # <<>> /\ ~IsNtSep(r[2][Len(r[2])])
                  THEN r[2] \o <<"\\">> ELSE r[2]) \o p_path
    IN  IF result_path # <<>> /\ ~IsNtSep(result_path[1])
           /\ result_drive # <<>> /\ result_drive[Len(result_drive)] # ":"
        THEN result_drive \o <<"\\">> \o result_path
        ELSE result_drive \o result_path

\* the loop of ntpath.normpath over comps, i being the 0-based index
RECURSIVE nt_comps(_, _, _)
nt_comps(comps, i, prefix) ==
    IF i >= Len(comps) THEN comps
    ELSE LET c == comps[i + 1]
             without(a, b) == SubSeq(comps, 1, a - 1) \o SubSeq(comps, b + 1, Len(comps))
         IN  IF c = <<>> \/ c = <<".">>
             THEN nt_comps(without(i + 1, i + 1), i, prefix)
             ELSE IF c = <<".", ".">>
             THEN IF i > 0 /\ comps[i] # <<".", ".">>
                  THEN nt_comps(without(i, i + 1), i - 1, prefix)
                  ELSE IF i = 0 /\ prefix # <<>> /\ prefix[Len(prefix)] = "\\"
                  THEN nt_comps(without(i + 1, i + 1), i, prefix)
                  ELSE nt_comps(comps, i + 1, prefix)
             ELSE nt_comps(comps, i + 1, prefix)

\* ntpath.normpath(path)
nt_normpath(path) ==
    IF StartsWith(path, <<"\\", "\\", ".", "\\">>)
       \/ StartsWith(path, <<"\\", "\\", "?", "\\">>)
    THEN path
    ELSE LET p1 == Replace(path, "/", "\\")
             d == nt_splitdrive(p1)
             rooted == StartsWith(d[2], <<"\\">>)
             prefix == IF rooted THEN d[1] \o <<"\\">> ELSE d[1]
             rest == IF rooted THEN LStrip(d[2], "\\") ELSE d[2]
             comps == nt_comps(Split(rest, "\\"), 0, prefix)
         IN  IF prefix = <<>> /\ comps = <<>> THEN <<".">>
             ELSE prefix \o StrJoin(comps, <<"\\">>)

----------------------------------------------------------------------------
(* os.path, selected by os.name.                                           *)

\* os.path.join(a, b)
path_join(os, a, b) == IF os = "nt" THEN nt_join(a, b) ELSE posix_join(a, b)

\* os.path.normpath(path)
normpath(os, path) == IF os = "nt" THEN nt_normpath(path) ELSE posix_normpath(path)

----------------------------------------------------------------------------
(* The functions of boost_install.py.                                      *)

\* metainfo with the underscored version in the release segment of the URL too
metainfo_underscored_url(os, a_version, tmp) ==
    LET version_with_dots == a_version \o DOT_ZERO
        version_with_underscore == Replace(version_with_dots, ".", "_")
        archive_name == BOOST_ \o version_with_underscore \o TAR_GZ
    IN  [version   |-> version_with_dots,
         temp_dir  |-> tmp,
         url       |-> URL_BASE \o version_with_underscore \o SOURCE_SEG
                       \o archive_name,
         file_name |-> path_join(os, tmp, archive_name)]

\* metainfo(args): version_with_dots, temp_dir, url, file_name
metainfo(os, a_version, tmp) ==
    LET version_with_dots == a_version \o DOT_ZERO
        version_with_underscore == Replace(version_with_dots, ".", "_")
        archive_name == BOOST_ \o version_with_underscore \o TAR_GZ
    IN  [version   |-> version_with_dots,
         temp_dir  |-> tmp,
         url       |-> URL_BASE \o version_with_dots \o SOURCE_SEG \o archive_name,
         file_name |-> path_join(os, tmp, archive_name)]

\* extract(temp_dir, file_name): the extraction directory it returns
extract_result(os, tdir, fname) ==
    LET dir_name == Split(fname, ".")[1]
    IN  path_join(os, tdir, dir_name)

\* "if not path": None and the empty string are both false
IsFalsy(path) == path = None \/ path = <<>>

\* get_prefix with the version left out of the default path
get_prefix_without_version(os, path, ver) ==
    LET chosen == IF IsFalsy(path)
                  THEN (IF os = "nt" THEN NT_DEFAULT ELSE POSIX_DEFAULT)
                  ELSE path
    IN  PREFIX_EQ \o normpath(os, chosen)

\* get_prefix without the call of os.path.normpath
get_prefix_not_normalized(os, path, ver) ==
    LET chosen == IF IsFalsy(path)
                  THEN (IF os = "nt" THEN NT_DEFAULT \o ver ELSE POSIX_DEFAULT \o ver)
                  ELSE path
    IN  PREFIX_EQ \o chosen

\* get_prefix(path, version)
get_prefix_result(os, path, ver) ==
    LET chosen == IF IsFalsy(path)
                  THEN (IF os = "nt" THEN NT_DEFAULT \o ver ELSE POSIX_DEFAULT \o ver)
                  ELSE path
        prefix_path == normpath(os, chosen)
    IN  PREFIX_EQ \o prefix_path

\* bootstrap(): the cmd list
bootstrap_cmd(os, parg) ==
    Append(IF os = "nt" THEN <<BOOTSTRAP_BAT>> ELSE <<BOOTSTRAP_SH>>, parg)

\* b2(): the cmd list
b2_cmd(os, parg) ==
    IF os = "nt" THEN <<B2_EXE, INSTALL, parg, J8>>
    ELSE <<SUDO, B2_SH, INSTALL, parg, J8>>

\* bootstrap with check=True
bootstrap_kwargs_checked(os) == [shell |-> TRUE, check |-> TRUE]

\* bootstrap(): the keyword arguments of subprocess.run
bootstrap_kwargs(os) == [shell |-> TRUE, check |-> FALSE]

\* b2 with check=True on neither platform
b2_kwargs_unchecked(os) == [shell |-> os = "nt", check |-> FALSE]

\* b2(): the keyword arguments of subprocess.run
b2_kwargs(os) == [shell |-> os = "nt", check |-> os # "nt"]

----------------------------------------------------------------------------
(* subprocess: how a cmd list reaches the program it names.                *)

Contains(s, c) == \E i \in 1..Len(s) : s[i] = c

\* the number of backslashes of s from position i on
RECURSIVE BackslashRun(_, _)
BackslashRun(s, i) ==
    IF i <= Len(s) /\ s[i] = "\\" THEN 1 + BackslashRun(s, i + 1) ELSE 0

Backslashes(n) == [i \in 1..n |-> "\\"]

\* subprocess.list2cmdline for one argument (arguments hold no double quote)
QuoteArg(arg) ==
    LET needquote == Contains(arg, " ") \/ arg = <<>>
        trailing == CHOOSE n \in 0..Len(arg) :
                        /\ \A i \in (Len(arg) - n + 1)..Len(arg) : arg[i] = "\\"
                        /\ (n < Len(arg) => arg[Len(arg) - n] # "\\")
    IN  IF needquote THEN <<"\"">> \o arg \o Backslashes(trailing) \o <<"\"">>
        ELSE arg

\* subprocess.list2cmdline(seq)
list2cmdline(seq) == StrJoin([i \in 1..Len(seq) |-> QuoteArg(seq[i])], <<" ">>)

\* how the C runtime of a Windows program splits its command line
RECURSIVE ParseCmdline(_, _, _, _, _)
ParseCmdline(s, i, cur, inq, started) ==
    IF i > Len(s) THEN (IF started THEN <<cur>> ELSE <<>>)
    ELSE LET c == s[i] IN
         IF c = "\\"
         THEN LET n == BackslashRun(s, i)
                  quoted == i + n <= Len(s) /\ s[i + n] = "\""
              IN  IF ~quoted
                  THEN ParseCmdline(s, i + n, cur \o Backslashes(n), inq, TRUE)
                  ELSE IF n % 2 = 1
                  THEN ParseCmdline(s, i + n + 1,
                                    cur \o Backslashes(n \div 2) \o <<"\"">>, inq, TRUE)
                  ELSE ParseCmdline(s, i + n + 1,
                                    cur \o Backslashes(n \div 2), ~inq, TRUE)
         ELSE IF c = "\""
         THEN ParseCmdline(s, i + 1, cur, ~inq, TRUE)
         ELSE IF c = " " /\ ~inq
         THEN (IF started THEN <<cur>> ELSE <<>>)
              \o ParseCmdline(s, i + 1, <<>>, FALSE, FALSE)
         ELSE ParseCmdline(s, i + 1, Append(cur, c), inq, TRUE)

\* the words /bin/sh makes of a command string without quoting
ShellWords(s) == SelectSeq(Split(s, " "), LAMBDA w : w # <<>>)

\* subprocess.run(cmd, shell=..., cwd=...): the process that is created
\* (argv), and the program the command names with the arguments it receives
Popen(os, cmd, shell, cwd) ==
    IF os = "nt"
    THEN LET line == list2cmdline(cmd)
             parsed == ParseCmdline(line, 1, <<>>, FALSE, FALSE)
         IN  [argv |-> IF shell
                       THEN <<CMD_EXE, SLASH_C, line>>
                       ELSE <<line>>,
              exe  |-> parsed[1],
              args |-> Tail(parsed),
              cwd  |-> cwd]
    ELSE IF shell
    THEN \* args = ["/bin/sh", "-c"] + cmd: cmd[0] is the command string,
         \* the other items are the shell's own $0, $1, ...
         LET words == ShellWords(cmd[1])
         IN  [argv |-> <<BIN_SH, DASH_C>> \o cmd,
              exe  |-> words[1],
              args |-> Tail(words),
              cwd  |-> cwd]
    ELSE [argv |-> cmd, exe |-> cmd[1], args |-> Tail(cmd), cwd |-> cwd]

\* the build executable a launched process runs and the arguments it gets:
\* sudo runs its first argument with the remaining ones
BuildExe(p) ==
    IF p.exe = SUDO /\ p.args # <<>>
    THEN [exe |-> p.args[1], args |-> Tail(p.args)]
    ELSE [exe |-> p.exe, args |-> p.args]

----------------------------------------------------------------------------
(* Inputs of a run.                                                        *)

Platforms == {"nt", "posix"}

\* the version of the usage line, "1.76"
V_1_76 == <<"1", ".", "7", "6">>

Digits == {"1", "7"}
DigitStrings == UNION {[1..k -> Digits] : k \in 1..MaxDigits}
\* the two-component numeric version strings
Versions == {a \o <<".">> \o b : a \in DigitStrings, b \in DigitStrings}

PathChars == {"/", "\\", ".", "a", ":"}
\* the non-empty explicit paths over PathChars
Paths == UNION {[1..k -> PathChars] : k \in 1..MaxPathLen}

\* explicit paths of the usual kind: doubled separators, a blank
SamplePaths ==
    { <<"/", "o", "p", "t", "/", "/", "b">>,
      <<"C", ":", "\\", "B", "o", "o", "s", "t", "\\", "\\", "x">>,
      <<"/", "a", " ", "b", "/", "c">> }

\* what tempfile.gettempdir() may return: an absolute directory, with or
\* without a "." in it (a user-profile temp path has one)
UsualTempDir(os) ==
    IF os = "nt" THEN <<"C", ":", "\\", "T", "e", "m", "p">>
    ELSE <<"/", "t", "m", "p">>
TempDirs(os) ==
    {UsualTempDir(os)} \cup
    (IF os = "nt"
     THEN { <<"C", ":", "\\", "U", "\\", "j", ".", "d", "\\", "T", "e", "m", "p">> }
     ELSE { <<"/", "t", "m", "p", "/", "a", ".", "b">> })

Stages == <<"metainfo", "download", "extract", "get_prefix", "bootstrap", "b2">>

\* exit statuses an external process may end with
ExitStatuses == {0, 1, 127}

InitRest ==
    /\ pc = "metainfo"
    /\ calls = <<>>
    /\ version = None
    /\ temp_dir = None
    /\ url = None
    /\ file_name = None
    /\ extract_directory = None
    /\ prefix_arg = None
    /\ running = "none"
    /\ launched = <<>>
    /\ returncodes = <<>>
    /\ exc = "None"
    /\ raised_in = "none"
    /\ stdout = <<>>
    /\ exit_code = -1

\* the runs of the usage line, with and without -p
InitMain ==
    /\ os_name \in Platforms
    /\ args_version = V_1_76
    /\ args_path \in {None, <<>>} \cup SamplePaths
    /\ gettempdir \in TempDirs(os_name)
    /\ InitRest

\* every two-component version, without -p
InitVersions ==
    /\ os_name \in Platforms
    /\ args_version \in Versions
    /\ args_path \in {None, <<>>}
    /\ gettempdir = UsualTempDir(os_name)
    /\ InitRest

\* every short explicit path
InitPaths ==
    /\ os_name \in Platforms
    /\ args_version = V_1_76
    /\ args_path \in Paths
    /\ gettempdir = UsualTempDir(os_name)
    /\ InitRest

\* the state when main() has parsed the arguments and calls process(args)
Init == InitMain \/ InitVersions \/ InitPaths

----------------------------------------------------------------------------
(* The steps of process(), main() and the top-level handler.               *)

\* an exception leaves process() and main() for the "except Exception" clause
Raise(stage, e) ==
    /\ exc' = e
    /\ raised_in' = stage
    /\ pc' = "except"

\* line 31: version, temp_dir, url, file_name = metainfo(args)
do_metainfo ==
    /\ pc = "metainfo"
    /\ calls' = Append(calls, "metainfo")
    /\ LET m == metainfo(os_name, args_version, gettempdir)
       IN  /\ version' = m.version
           /\ temp_dir' = m.temp_dir
           /\ url' = m.url
           /\ file_name' = m.file_name
    /\ stdout' = Append(stdout, "Temp directory")
    /\ pc' = "download"
    /\ UNCHANGED <<os_name, args_version, args_path, gettempdir, extract_directory,
                   prefix_arg, running, launched, returncodes, exc, raised_in,
                   exit_code>>

\* download with its errors caught and dropped inside the function
download_swallowing_errors ==
    /\ pc = "download"
    /\ calls' = Append(calls, "download")
    /\ stdout' = Append(stdout, "Downloading")
    /\ \E outcome \in {"ok", "URLError", "OSError"} :
          /\ pc' = "extract"
          /\ exc' = IF outcome = "ok" THEN exc ELSE outcome
          /\ raised_in' = IF outcome = "ok" THEN raised_in ELSE "download"
    /\ UNCHANGED <<os_name, args_version, args_path, gettempdir, version, temp_dir,
                   url, file_name, extract_directory, prefix_arg, running, launched,
                   returncodes, exit_code>>

\* line 34: download(url, file_name); urlopen or open may raise
download ==
    /\ pc = "download"
    /\ calls' = Append(calls, "download")
    /\ stdout' = Append(stdout, "Downloading")
    /\ \E outcome \in {"ok", "URLError", "OSError"} :
          IF outcome = "ok"
          THEN pc' = "extract" /\ UNCHANGED <<exc, raised_in>>
          ELSE Raise("download", outcome)
    /\ UNCHANGED <<os_name, args_version, args_path, gettempdir, version, temp_dir,
                   url, file_name, extract_directory, prefix_arg, running, launched,
                   returncodes, exit_code>>

\* line 37: extract_directory = extract(temp_dir, file_name);
\* tarfile.open or extractall may raise, and then nothing is assigned
extract ==
    /\ pc = "extract"
    /\ calls' = Append(calls, "extract")
    /\ stdout' = Append(stdout, "Extracting")
    /\ \E outcome \in {"ok", "ReadError", "OSError"} :
          IF outcome = "ok"
          THEN /\ extract_directory' = extract_result(os_name, temp_dir, file_name)
               /\ pc' = "get_prefix"
               /\ UNCHANGED <<exc, raised_in>>
          ELSE /\ Raise("extract", outcome)
               /\ UNCHANGED extract_directory
    /\ UNCHANGED <<os_name, args_version, args_path, gettempdir, version, temp_dir,
                   url, file_name, prefix_arg, running, launched, returncodes,
                   exit_code>>

\* line 40: prefix_arg = get_prefix(args.path, version)
get_prefix ==
    /\ pc = "get_prefix"
    /\ calls' = Append(calls, "get_prefix")
    /\ stdout' = Append(stdout, "Install path")
    /\ prefix_arg' = get_prefix_result(os_name, args_path, version)
    /\ pc' = "bootstrap"
    /\ UNCHANGED <<os_name, args_version, args_path, gettempdir, version, temp_dir,
                   url, file_name, extract_directory, running, launched,
                   returncodes, exc, raised_in, exit_code>>

\* subprocess.run creating the process: it raises when the process cannot be
\* created (cwd is no directory, the program is not found without a shell)
Launch(stage, cmd, kwargs, waiting) ==
    /\ calls' = Append(calls, stage)
    /\ \E created \in BOOLEAN :
          IF created
          THEN /\ launched' = Append(launched,
                      [stage |-> stage]
                      @@ Popen(os_name, cmd, kwargs.shell, extract_directory))
               /\ running' = stage
               /\ pc' = waiting
               /\ UNCHANGED <<exc, raised_in>>
          ELSE /\ Raise(stage, "OSError")
               /\ UNCHANGED <<launched, running>>

\* bootstrap starting the process without waiting for it to end
bootstrap_without_waiting ==
    /\ pc = "bootstrap"
    /\ stdout' = Append(stdout, "Bootstrap command")
    /\ Launch("bootstrap", bootstrap_cmd(os_name, prefix_arg),
              bootstrap_kwargs(os_name), "b2")
    /\ UNCHANGED <<os_name, args_version, args_path, gettempdir, version, temp_dir,
                   url, file_name, extract_directory, prefix_arg, returncodes,
                   exit_code>>

\* line 43: bootstrap(prefix_arg, extract_directory), up to the process start
bootstrap ==
    /\ pc = "bootstrap"
    /\ stdout' = Append(stdout, "Bootstrap command")
    /\ Launch("bootstrap", bootstrap_cmd(os_name, prefix_arg),
              bootstrap_kwargs(os_name), "bootstrap_wait")
    /\ UNCHANGED <<os_name, args_version, args_path, gettempdir, version, temp_dir,
                   url, file_name, extract_directory, prefix_arg, returncodes,
                   exit_code>>

\* subprocess.run returning: the process has ended with status rc; with
\* check=True a non-zero status raises CalledProcessError
Wait(stage, kwargs, rc, next) ==
    /\ running' = "none"
    /\ returncodes' = Append(returncodes, [stage |-> stage, rc |-> rc])
    /\ IF kwargs.check /\ rc # 0
       THEN Raise(stage, "CalledProcessError")
       ELSE pc' = next /\ UNCHANGED <<exc, raised_in>>

\* line 129: subprocess.run of bootstrap returns
bootstrap_wait ==
    /\ pc = "bootstrap_wait"
    /\ \E rc \in ExitStatuses : Wait("bootstrap", bootstrap_kwargs(os_name), rc, "b2")
    /\ UNCHANGED <<os_name, args_version, args_path, gettempdir, calls, version,
                   temp_dir, url, file_name, extract_directory, prefix_arg, launched,
                   stdout, exit_code>>

\* line 45: b2(prefix_arg, extract_directory), up to the process start
b2 ==
    /\ pc = "b2"
    /\ stdout' = Append(stdout, "Build command")
    /\ Launch("b2", b2_cmd(os_name, prefix_arg), b2_kwargs(os_name), "b2_wait")
    /\ UNCHANGED <<os_name, args_version, args_path, gettempdir, version, temp_dir,
                   url, file_name, extract_directory, prefix_arg, returncodes,
                   exit_code>>

\* line 149: subprocess.run of b2 returns; process() and main() return
b2_wait ==
    /\ pc = "b2_wait"
    /\ \E rc \in ExitStatuses : Wait("b2", b2_kwargs(os_name), rc, "end")
    /\ UNCHANGED <<os_name, args_version, args_path, gettempdir, calls, version,
                   temp_dir, url, file_name, extract_directory, prefix_arg, launched,
                   stdout, exit_code>>

\* lines 169-171: the top-level handler prints the error and falls through
except_handler ==
    /\ pc = "except"
    /\ stdout' = Append(stdout, "Error")
    /\ pc' = "end"
    /\ UNCHANGED <<os_name, args_version, args_path, gettempdir, calls, version,
                   temp_dir, url, file_name, extract_directory, prefix_arg, running,
                   launched, returncodes, exc, raised_in, exit_code>>

\* the end of the script: no exception is in flight and sys.exit is never
\* called, so the interpreter exits with status 0
interpreter_exit ==
    /\ pc = "end"
    /\ exit_code' = 0
    /\ pc' = "exit"
    /\ UNCHANGED <<os_name, args_version, args_path, gettempdir, calls, version,
                   temp_dir, url, file_name, extract_directory, prefix_arg, running,
                   launched, returncodes, exc, raised_in, stdout>>

Next ==
    \/ do_metainfo
    \/ download
    \/ extract
    \/ get_prefix
    \/ bootstrap
    \/ bootstrap_wait
    \/ b2
    \/ b2_wait
    \/ except_handler
    \/ interpreter_exit

Spec == Init /\ [][Next]_vars

----------------------------------------------------------------------------
(* Vocabulary of the properties.                                           *)

IsPrefixOf(s, t) == Len(s) <= Len(t) /\ \A i \in 1..Len(s) : s[i] = t[i]

Called(stage) == \E i \in 1..Len(calls) : calls[i] = stage

WasLaunched(stage) == \E i \in 1..Len(launched) : launched[i].stage = stage

Returned(stage) == \E i \in 1..Len(returncodes) : returncodes[i].stage = stage

ReturnedWith(stage, rc) ==
    \E i \in 1..Len(returncodes) :
        returncodes[i].stage = stage /\ returncodes[i].rc = rc

ErrorPrinted == \E i \in 1..Len(stdout) : stdout[i] = "Error"

InSeq(x, seq) == \E i \in 1..Len(seq) : seq[i] = x

IsSep(os, c) == IF os = "nt" THEN IsNtSep(c) ELSE c = "/"

\* s with every run of separators cut down to its first separator
RECURSIVE Collapse(_, _)
Collapse(os, s) ==
    IF Len(s) < 2 THEN s
    ELSE IF IsSep(os, s[1]) /\ IsSep(os, s[2])
    THEN Collapse(os, <<s[1]>> \o SubSeq(s, 3, Len(s)))
    ELSE <<s[1]>> \o Collapse(os, Tail(s))

\* two adjacent separators at positions from..from+1 or later
AdjacentSeps(os, s, from) ==
    \E i \in from..(Len(s) - 1) : IsSep(os, s[i]) /\ IsSep(os, s[i + 1])

\* the path inside a "--prefix=<path>" argument
PrefixPath(arg) == SubSeq(arg, Len(PREFIX_EQ) + 1, Len(arg))

----------------------------------------------------------------------------
(* C1: when a stage raises, no later stage is started.                     *)

\* C1: once an exception is raised, the last stage started is the one that
\* raised it; when it was download, neither extract, get_prefix, bootstrap
\* nor b2 has been started and nothing they compute or launch exists; and
\* the handler's run ends with the error message printed last.
C1_NoStageAfterRaise ==
    exc # "None" =>
        /\ calls # <<>> /\ calls[Len(calls)] = raised_in
        /\ raised_in = "download" =>
              /\ calls = <<"metainfo", "download">>
              /\ ~Called("extract") /\ ~Called("get_prefix")
              /\ ~Called("bootstrap") /\ ~Called("b2")
              /\ extract_directory = None /\ prefix_arg = None
              /\ launched = <<>>
        /\ pc \in {"end", "exit"} => stdout[Len(stdout)] = "Error"

\* C1: a run in which urlopen raised has ended
C1_Witness ==
    /\ pc = "exit"
    /\ exc = "URLError"
    /\ raised_in = "download"
    /\ ErrorPrinted

----------------------------------------------------------------------------
(* C2: the exit status.                                                    *)

\* C2: when the run has ended, the exit status is non-zero exactly when an
\* exception of a pipeline stage reached the top level.
C2_ExitCodeTellsFailure ==
    pc = "exit" => ((exit_code # 0) <=> (exc # "None"))

----------------------------------------------------------------------------
(* C3: the version and the URL metainfo resolves.                          *)

\* C3: for a two-component version V, metainfo returns the version V.0 and
\* the URL <base> V.0 /source/boost_ U _0.tar.gz, U being V with "_" for ".".
C3_MetainfoUrl ==
    (pc # "metainfo" /\ args_version \in Versions \cup {V_1_76}) =>
        /\ version = args_version \o <<".", "0">>
        /\ url = URL_BASE \o args_version \o <<".", "0">> \o SOURCE_SEG \o BOOST_
                 \o Replace(args_version, ".", "_") \o <<"_", "0">> \o TAR_GZ

\* C3: metainfo has resolved 1.76 to the URL of the 1.76.0 archive
C3_Witness ==
    /\ pc = "download"
    /\ args_version = V_1_76
    /\ version = <<"1", ".", "7", "6", ".", "0">>
    /\ url = URL_BASE \o <<"1", ".", "7", "6", ".", "0">> \o SOURCE_SEG
             \o <<"b", "o", "o", "s", "t", "_", "1", "_", "7", "6", "_", "0">>
             \o TAR_GZ

----------------------------------------------------------------------------
(* C4: the default prefix.                                                 *)

\* C4: without an install path (absent or empty), get_prefix returns
\* --prefix=/usr/local/boost_<V.0> on a non-Windows platform and
\* --prefix=C:\boost\boost_<V.0> on Windows.
C4_DefaultPrefix ==
    (prefix_arg # None /\ IsFalsy(args_path)) =>
        prefix_arg =
            PREFIX_EQ
            \o (IF os_name = "nt"
                THEN <<"C", ":", "\\", "b", "o", "o", "s", "t", "\\">>
                ELSE <<"/", "u", "s", "r", "/", "l", "o", "c", "a", "l", "/">>)
            \o BOOST_ \o args_version \o <<".", "0">>

\* C4: get_prefix has returned the Windows default for an absent -p
C4_Witness ==
    /\ pc = "bootstrap"
    /\ args_path = None
    /\ os_name = "nt"
    /\ args_version # V_1_76
    /\ prefix_arg # None

----------------------------------------------------------------------------
(* C5: the prefix of an explicit path.                                     *)

\* the part of a Windows path after its drive letter and colon
AfterDrive(os, p) ==
    IF os = "nt" /\ Len(p) >= 2 /\ p[2] = ":" THEN SubSeq(p, 3, Len(p)) ELSE p

\* the components of a path between its separators
Components(os, p) ==
    IF os = "nt" THEN Split(Replace(AfterDrive(os, p), "/", "\\"), "\\")
    ELSE Split(p, "/")

HasDotComponent(os, p) ==
    \E i \in 1..Len(Components(os, p)) :
        Components(os, p)[i] \in {<<".">>, <<".", ".">>}

\* the path starts with two separators (on Windows: a UNC or device path)
TwoLeadingSeps(os, p) == Len(p) >= 2 /\ IsSep(os, p[1]) /\ IsSep(os, p[2])

ExactlyTwoLeadingSeps(os, p) ==
    TwoLeadingSeps(os, p) /\ ~(Len(p) >= 3 /\ IsSep(os, p[3]))

\* a root: "/" or "\", or a drive with its root, "C:\"
IsRoot(os, c) ==
    \/ Len(c) = 1 /\ IsSep(os, c[1])
    \/ os = "nt" /\ Len(c) = 3 /\ c[2] = ":" /\ IsSep(os, c[3])

StripTrailingSep(os, c) ==
    IF c # <<>> /\ IsSep(os, c[Len(c)]) /\ ~IsRoot(os, c)
    THEN SubSeq(c, 1, Len(c) - 1)
    ELSE c

\* the path written with the platform's own separator
NativeSeps(os, p) == IF os = "nt" THEN Replace(p, "/", "\\") ELSE p

\* the separator-collapsed form as os.path.normpath produces it for a path
\* without "." and ".." components
CollapsedForm(os, p) ==
    LET c == StripTrailingSep(os, Collapse(os, NativeSeps(os, p)))
    IN  IF os = "posix" /\ ExactlyTwoLeadingSeps(os, p) THEN <<"/">> \o c ELSE c

\* C5 as stated: for a non-empty explicit path the argument is --prefix=
\* followed by the path with every run of separators, the leading one
\* included, replaced by a single separator (the platform's own); it never
\* holds two adjacent separators; and normalizing the result again leaves
\* it unchanged.
C5_EveryRunCollapsed ==
    (prefix_arg # None /\ ~IsFalsy(args_path)) =>
        /\ prefix_arg = PREFIX_EQ \o Collapse(os_name, NativeSeps(os_name, args_path))
        /\ ~AdjacentSeps(os_name, PrefixPath(prefix_arg), 1)
        /\ normpath(os_name, PrefixPath(prefix_arg)) = PrefixPath(prefix_arg)

\* the explicit paths the amended C5 speaks of: all on a non-Windows
\* platform, those not starting with two separators on Windows
C5_Covered ==
    /\ prefix_arg # None
    /\ ~IsFalsy(args_path)
    /\ ~(os_name = "nt" /\ TwoLeadingSeps(os_name, args_path))

\* a colon occurs in the path only as the colon of a drive letter
ColonOnlyInDrive(p) == \A i \in 1..Len(p) : p[i] = ":" => i = 2

\* C5 amended: the argument is --prefix= followed by a path that has no two
\* adjacent separators, except that a POSIX path may start with exactly two
\* slashes; normalizing it again leaves it unchanged (on Windows: when its
\* only colon is that of the drive); and for a path without "." and ".."
\* components it is the separator-collapsed form without its trailing
\* separator, with "\" for "/" on Windows and with both leading slashes
\* kept on POSIX when the path starts with exactly two.
C5_NormpathPrefix ==
    C5_Covered =>
        LET r == PrefixPath(prefix_arg) IN
        /\ StartsWith(prefix_arg, PREFIX_EQ)
        /\ ~AdjacentSeps(os_name, r, IF os_name = "posix" THEN 2 ELSE 1)
        /\ (os_name = "posix" \/ ColonOnlyInDrive(args_path)) =>
               normpath(os_name, r) = r
        /\ ~HasDotComponent(os_name, args_path) =>
               r = CollapsedForm(os_name, args_path)
        /\ (os_name = "posix" /\ AdjacentSeps(os_name, r, 1)) =>
               ExactlyTwoLeadingSeps(os_name, args_path)

\* C5: get_prefix has collapsed the doubled separator of C:\Boost\\x
C5_Witness ==
    /\ pc = "bootstrap"
    /\ os_name = "nt"
    /\ args_path = <<"C", ":", "\\", "B", "o", "o", "s", "t", "\\", "\\", "x">>
    /\ prefix_arg = PREFIX_EQ \o <<"C", ":", "\\", "B", "o", "o", "s", "t", "\\", "x">>

----------------------------------------------------------------------------
(* C6: the prefix argument reaches both build tools.                       *)

\* C6: the build executable of every external process launched receives the
\* prefix argument get_prefix returned among its arguments.
C6_PrefixReachesBuildTools ==
    \A i \in 1..Len(launched) : InSeq(prefix_arg, BuildExe(launched[i]).args)

----------------------------------------------------------------------------
(* C7: the order of the stages.                                            *)

\* C7: the stages started so far are an initial part of metainfo, download,
\* extract, get_prefix, bootstrap, b2 (fixed order, each at most once); a
\* stage is started only when no external process is still running; and
\* the b2 process is launched only after the bootstrap process has ended.
C7_StageOrder ==
    /\ IsPrefixOf(calls, Stages)
    /\ Len(launched) <= 2
    /\ \A i \in 1..Len(launched) : launched[i].stage = Stages[4 + i]
    /\ WasLaunched("b2") => (Returned("bootstrap") /\ running # "bootstrap")
    /\ running # "none" => (pc = running \o "_wait" /\ calls[Len(calls)] = running)
    /\ Len(returncodes) <= Len(launched)

\* C7: the b2 process is running, the last of the six stages
C7_Witness ==
    /\ pc = "b2_wait"
    /\ running = "b2"
    /\ calls = Stages

----------------------------------------------------------------------------
(* C8: the exit status of b2.                                              *)

\* C8: once the b2 process has ended with a non-zero status, on a
\* non-Windows platform CalledProcessError is raised in b2 and the run ends
\* with the error message; on Windows nothing is raised, the run goes on to
\* its normal end and no error message is printed.
C8_B2StatusByPlatform ==
    (\E rc \in ExitStatuses \ {0} : ReturnedWith("b2", rc)) =>
        IF os_name = "nt"
        THEN exc = "None" /\ pc \in {"end", "exit"} /\ ~ErrorPrinted
        ELSE /\ exc = "CalledProcessError" /\ raised_in = "b2"
             /\ pc \in {"except", "end", "exit"}
             /\ pc \in {"end", "exit"} => ErrorPrinted

\* C8: a Windows run has ended without a message although b2.exe failed
C8_Witness ==
    /\ pc = "exit"
    /\ os_name = "nt"
    /\ ReturnedWith("b2", 1)
    /\ ~ErrorPrinted

----------------------------------------------------------------------------
(* C9: the exit status of bootstrap.                                       *)

\* C9: once the bootstrap process has ended, whatever its status, nothing
\* was raised in bootstrap, and b2 is the stage that is started next.
C9_BootstrapStatusIgnored ==
    Returned("bootstrap") =>
        /\ raised_in # "bootstrap"
        /\ pc = "b2" \/ (Len(calls) = 6 /\ calls[6] = "b2")
        /\ ErrorPrinted => raised_in = "b2"

\* C9: b2 runs after a bootstrap that ended with the shell's status 127
C9_Witness ==
    /\ ReturnedWith("bootstrap", 127)
    /\ running = "b2"
    /\ exc = "None"

----------------------------------------------------------------------------
(* C10: the extraction directory.                                          *)

\* C10: extract returns the temp directory joined with the archive's base
\* name boost_<V.0 underscored>, and every external process runs there.
C10_ExtractDirectory ==
    extract_directory # None =>
        /\ extract_directory =
               gettempdir \o (IF os_name = "nt" THEN <<"\\">> ELSE <<"/">>)
               \o BOOST_ \o Replace(args_version \o <<".", "0">>, ".", "_")
        /\ \A i \in 1..Len(launched) : launched[i].cwd = extract_directory

====
